---- MODULE Spec2Model ----
(***************************************************************************)
(* RPKI-viz backend: the VRP canonicalizer (vrp_loader.py), the            *)
(* snapshot/diff/serial engine with its file store (diff_engine.py), the   *)
(* polling loop (main.py) and the read accessors used by the API server.   *)
(*                                                                         *)
(* Conventions of the model:                                               *)
(*  - a Python str is a TLA+ string; Codepoints gives its code points, so  *)
(*    that str comparison and parsing are computed as Python does;         *)
(*  - a Python list is a sequence, a dict with fixed keys a record;        *)
(*  - None for last_update is NoUpdate; a timestamp is the value of the    *)
(*    logical clock when datetime.utcnow() is read;                        *)
(*  - the lists `added` and `removed` of a diff are built by iterating a   *)
(*    Python set, whose order is unspecified: they are modelled as sets;   *)
(*  - a file is [st, ...]: st = "missing" (no such file), "corrupt" (the   *)
(*    file exists and json.load raises JSONDecodeError, e.g. truncated by  *)
(*    open(path, 'w') and not yet rewritten) or "ok" (a JSON document).    *)
(***************************************************************************)
EXTENDS Integers, Sequences, FiniteSets, TLC

\* ------------------------------------------------------------------ bounds
\* longest list of roas in one upstream response
MaxBatch == 2
\* number of accepted snapshots (readings of the clock) in one behaviour
MaxClock == 2
\* number of API request threads
NumReaders == 1
\* longest list given to canonicalize_vrps on its own
MaxRoas == 3

\* --------------------------------------------------------------- constants
\* self.last_update = None
NoUpdate == 0
\* upper end of the ASN range in validate_asn: the digits of 4294967295
MaxAsn == <<52, 50, 57, 52, 57, 54, 55, 50, 57, 53>>
\* upper end of the maxLength range in validate_max_length
MaxMaxLength == 128

\* ------------------------------------------------------------ Python str
\* The code points of the strings the model uses as asn and prefix values.
Codepoints(s) ==
    CASE s = "AS1" -> <<65, 83, 49>>
      [] s = "AS2" -> <<65, 83, 50>>
      [] s = "AS0" -> <<65, 83, 48>>
      [] s = "AS4294967295" -> <<65, 83, 52, 50, 57, 52, 57, 54, 55, 50, 57, 53>>
      [] s = "AS4294967296" -> <<65, 83, 52, 50, 57, 52, 57, 54, 55, 50, 57, 54>>
      [] s = "AS-1" -> <<65, 83, 45, 49>>
      [] s = "AS" -> <<65, 83>>
      [] s = "ASx" -> <<65, 83, 120>>
      [] s = "as1" -> <<97, 115, 49>>
      [] s = "1" -> <<49>>
      [] s = "10.0.0.0/24" -> <<49, 48, 46, 48, 46, 48, 46, 48, 47, 50, 52>>
      [] s = "10.1.0.0/24" -> <<49, 48, 46, 49, 46, 48, 46, 48, 47, 50, 52>>
      [] s = "10.0.0.1/24" -> <<49, 48, 46, 48, 46, 48, 46, 49, 47, 50, 52>>
      [] s = "10.0.0.0/255.255.255.0" ->
            <<49, 48, 46, 48, 46, 48, 46, 48, 47, 50, 53, 53, 46, 50, 53, 53,
              46, 50, 53, 53, 46, 48>>

\* Python's str < str: lexicographic on code points, a proper prefix is less.
RECURSIVE SeqLess(_, _)
SeqLess(a, b) ==
    IF b = <<>> THEN FALSE
    ELSE IF a = <<>> THEN TRUE
    ELSE IF Head(a) # Head(b) THEN Head(a) < Head(b)
    ELSE SeqLess(Tail(a), Tail(b))

StrLess(s, t) == SeqLess(Codepoints(s), Codepoints(t))

\* int(s) for a str of an optional sign and ASCII digits (surrounding
\* whitespace and underscores, which int() also takes, are left out):
\* ok = FALSE is ValueError; negative; digits without the leading zeros.
\* Python's int is unbounded, so the value is kept as its digits.
RECURSIVE StripZeros(_)
StripZeros(cp) ==
    IF Len(cp) > 1 /\ Head(cp) = 48 THEN StripZeros(Tail(cp)) ELSE cp

ParseInt(cp) ==
    LET signed == cp # <<>> /\ Head(cp) \in {43, 45}
        digits == IF signed THEN Tail(cp) ELSE cp
        ok     == digits # <<>> /\ \A i \in 1..Len(digits) : digits[i] \in 48..57
    IN  IF ok
        THEN [ok |-> TRUE,
              negative |-> signed /\ Head(cp) = 45 /\ StripZeros(digits) # <<48>>,
              digits |-> StripZeros(digits)]
        ELSE [ok |-> FALSE, negative |-> FALSE, digits |-> <<>>]

\* a > b for two non-negative ints given by their digits
DigitsGreater(a, b) ==
    \/ Len(a) > Len(b)
    \/ Len(a) = Len(b) /\ SeqLess(b, a)

\* ----------------------------------------------------------- ipaddress
\* ipaddress.ip_network(p, strict=True) on the prefixes of the model:
\* ok = FALSE is ValueError (host bits set, or not a network); str is
\* str(network).
ip_network(p) ==
    CASE p = "10.0.0.0/24" -> [ok |-> TRUE, str |-> "10.0.0.0/24"]
      [] p = "10.1.0.0/24" -> [ok |-> TRUE, str |-> "10.1.0.0/24"]
      [] p = "10.0.0.0/255.255.255.0" -> [ok |-> TRUE, str |-> "10.0.0.0/24"]
      [] p = "10.0.0.1/24" -> [ok |-> FALSE, str |-> ""]
      [] p = "10.0.0.0/8" -> [ok |-> TRUE, str |-> "10.0.0.0/8"]
      [] p = "2001:db8::/32" -> [ok |-> TRUE, str |-> "2001:db8::/32"]
      [] p = "10.0.0.0/33" -> [ok |-> FALSE, str |-> ""]

\* ------------------------------------------------------------- VRPEntry
validate_asn(v) ==
    LET cp == Codepoints(v)
        num == ParseInt(SubSeq(cp, 3, Len(cp)))
    IN  /\ Len(cp) >= 2 /\ cp[1] = 65 /\ cp[2] = 83
        /\ num.ok
        /\ ~(num.negative \/ DigitsGreater(num.digits, MaxAsn))

validate_prefix(v) == ip_network(v).ok

\* the upper end of the range taken one too high
OffByOneMaxLength(v) == ~(v < 0 \/ v > MaxMaxLength + 1)

validate_max_length(v) == ~(v < 0 \/ v > MaxMaxLength)

\* pydantic runs every field validator; the entry is built iff all pass
VRPEntryValid(r) ==
    validate_asn(r.asn) /\ validate_prefix(r.prefix) /\ validate_max_length(r.maxLength)

\* VRPEntry.canonicalize: "asn|normalized_prefix|maxLength|ta"
canonicalize(r) == <<r.asn, ip_network(r.prefix).str, r.maxLength, r.ta>>

\* The raw roas an upstream response can carry.
RawRecords ==
    { [asn |-> "AS1", prefix |-> "10.0.0.0/24", maxLength |-> 24, ta |-> "ta1"],
      [asn |-> "AS1", prefix |-> "10.0.0.0/24", maxLength |-> 24, ta |-> "ta2"],
      [asn |-> "AS1", prefix |-> "10.0.0.0/255.255.255.0", maxLength |-> 24, ta |-> "ta1"],
      [asn |-> "AS2", prefix |-> "10.1.0.0/24", maxLength |-> 24, ta |-> "ta1"],
      [asn |-> "AS1", prefix |-> "10.0.0.1/24", maxLength |-> 24, ta |-> "ta1"] }

RawBatches == UNION { [1..n -> RawRecords] : n \in 0..MaxBatch }

\* RoutinagorVRPResponse(**data): ValidationError unless every roa validates
PartialResponse(roas) == [ok |-> TRUE, roas |-> SelectSeq(roas, VRPEntryValid)]

RoutinagorVRPResponse(roas) ==
    IF \A i \in 1..Len(roas) : VRPEntryValid(roas[i])
    THEN [ok |-> TRUE, roas |-> roas]
    ELSE [ok |-> FALSE, roas |-> <<>>]

\* ------------------------------------------------------ canonicalize_vrps
\* the dict stored for one entry
CanonicalDict(r) ==
    [asn |-> r.asn, prefix |-> ip_network(r.prefix).str,
     maxLength |-> r.maxLength, ta |-> r.ta]

\* every entry stored, none taken as a duplicate
KeepEveryRecord(vrps, keys, out) ==
    out \o [i \in 1..Len(vrps) |-> CanonicalDict(vrps[i])]

\* canonical_map.values(): first entry of each canonical key, insertion order
RECURSIVE CanonicalMapValues(_, _, _)
CanonicalMapValues(vrps, keys, out) ==
    IF vrps = <<>> THEN out
    ELSE LET k == canonicalize(Head(vrps))
         IN  IF k \in keys
             THEN CanonicalMapValues(Tail(vrps), keys, out)
             ELSE CanonicalMapValues(Tail(vrps), keys \cup {k},
                                     Append(out, CanonicalDict(Head(vrps))))

\* the sort key (x['prefix'], x['asn'], x['maxLength']) compared as tuples
SortKeyLess(x, y) ==
    IF x.prefix # y.prefix THEN StrLess(x.prefix, y.prefix)
    ELSE IF x.asn # y.asn THEN StrLess(x.asn, y.asn)
    ELSE x.maxLength < y.maxLength

\* sorted() is stable: x goes after every element whose key is not greater
RECURSIVE InsertSorted(_, _)
InsertSorted(x, s) ==
    IF s = <<>> THEN <<x>>
    ELSE IF SortKeyLess(x, Head(s)) THEN <<x>> \o s
    ELSE <<Head(s)>> \o InsertSorted(x, Tail(s))

RECURSIVE Sorted(_, _)
Sorted(s, out) ==
    IF s = <<>> THEN out ELSE Sorted(Tail(s), InsertSorted(Head(s), out))

canonicalize_vrps(vrps) == Sorted(CanonicalMapValues(vrps, {}, <<>>), <<>>)

\* -------------------------------------------------------------- DiffEngine
\* self.current_hash = ""
EmptyHash == <<>>

\* json.dumps(vrps, sort_keys=True): each object with its keys in sorted order
JsonDumpsSorted(vrps) ==
    [i \in 1..Len(vrps) |->
        <<vrps[i].asn, vrps[i].maxLength, vrps[i].prefix, vrps[i].ta>>]

\* sha256 of the bytes, taken as collision-free; never equal to ""
_compute_hash(vrps) == <<JsonDumpsSorted(vrps)>>

to_key(vrp) == <<vrp.asn, vrp.prefix, vrp.maxLength>>

\* {to_key(v): v for v in vrps}: a later entry replaces an earlier one
KeySet(vrps) == { to_key(vrps[i]) : i \in 1..Len(vrps) }

DictGet(vrps, k) ==
    LET last == CHOOSE i \in 1..Len(vrps) :
                    /\ to_key(vrps[i]) = k
                    /\ \A j \in (i + 1)..Len(vrps) : to_key(vrps[j]) # k
    IN  vrps[last]

\* the two results taken one for the other
SwappedDiff(old_vrps, new_vrps) ==
    [added   |-> { DictGet(old_vrps, k) : k \in KeySet(old_vrps) \ KeySet(new_vrps) },
     removed |-> { DictGet(new_vrps, k) : k \in KeySet(new_vrps) \ KeySet(old_vrps) }]

\* _compute_diff: (added, removed)
_compute_diff(old_vrps, new_vrps) ==
    [added   |-> { DictGet(new_vrps, k) : k \in KeySet(new_vrps) \ KeySet(old_vrps) },
     removed |-> { DictGet(old_vrps, k) : k \in KeySet(old_vrps) \ KeySet(new_vrps) }]

\* ------------------------------------------------------------------ state
VARIABLES
    \* DiffEngine in-memory state
    serial, current_hash, last_update, current_snapshot, previous_snapshot,
    \* DiffEngine.lock: "free" or "writer" (held across process_snapshot)
    lock,
    \* the files under state_dir
    metadata_file, current_file, previous_file, diff_files,
    \* main thread: position, locals added/removed of process_snapshot,
    \* outcome of the latest polling cycle
    pc, added, removed, last_cycle,
    \* datetime.utcnow(), advanced at every reading
    clock,
    \* API request threads: position, and the latest result handed to a client
    rpc, obs,
    \* history: serial at entry of the latest process_snapshot call, the
    \* record set and the length of the batch given to it, whether a write has
    \* failed since memory and store last agreed, how load_state ended, and
    \* what the latest fetch of the upstream returned
    call_serial, prev_call, dirty, load_outcome, fetched,
    \* canonicalize_vrps on its own: argument and result
    vrps_in, canonical_out

engine == <<serial, current_hash, last_update, current_snapshot, previous_snapshot>>
store  == <<metadata_file, current_file, previous_file, diff_files>>
hist   == <<call_serial, prev_call, dirty, load_outcome, fetched>>
canon  == <<vrps_in, canonical_out>>
vars   == <<engine, lock, store, pc, added, removed, last_cycle, clock,
            rpc, obs, hist, canon>>

Readers == 1..NumReaders

\* ------------------------------------------------------------------ files
NoMetadata  == [st |-> "missing", serial |-> 0, current_hash |-> EmptyHash,
                last_update |-> NoUpdate, vrp_count |-> 0]
NoSnapshot  == [st |-> "missing", doc |-> <<>>]
\* open(path, 'w') truncates: the file exists and is not a JSON document
Truncated(f) == [f EXCEPT !.st = "corrupt"]
NoDiff      == [st |-> "missing", serial |-> 0, added |-> {}, removed |-> {},
                added_count |-> 0, removed_count |-> 0]

\* the diff file of serial s, NoDiff when there is none
DiffFile(s) == IF s \in DOMAIN diff_files THEN diff_files[s] ELSE NoDiff

\* _save_diff: the document written to diff_<serial>.json
DiffDocument(s, add, rem) ==
    [st |-> "ok", serial |-> s, added |-> add, removed |-> rem,
     added_count |-> Cardinality(add), removed_count |-> Cardinality(rem)]

\* _save_state: the documents written
SnapshotDocument(vrps) == [st |-> "ok", doc |-> vrps]

MetadataJson(s, h, u, vrps) ==
    [st |-> "ok", serial |-> s, current_hash |-> h, last_update |-> u,
     vrp_count |-> Len(vrps)]

StaleMetadataDocument ==
    MetadataJson(serial - 1, current_hash, last_update, current_snapshot)

MetadataDocument ==
    MetadataJson(serial, current_hash, last_update, current_snapshot)

\* ------------------------------------------------------------- load_state
\* DiffEngine.__init__: the in-memory state of a new engine
NewEngine ==
    [serial |-> 0, current_hash |-> EmptyHash, last_update |-> NoUpdate,
     current_snapshot |-> <<>>, previous_snapshot |-> <<>>]

\* load_state on a new engine: the fields it leaves and how it ended:
\* "loaded", "fresh" (except FileNotFoundError) or "raised" (any other
\* exception leaves the assignments made before it)
LoadResult(meta, cur, prev) ==
    LET fromMeta == [NewEngine EXCEPT !.serial = meta.serial,
                                      !.current_hash = meta.current_hash,
                                      !.last_update = meta.last_update]
        fromCur  == [fromMeta EXCEPT !.current_snapshot = cur.doc]
    IN  CASE meta.st = "missing" -> [outcome |-> "fresh", e |-> NewEngine]
          [] meta.st = "corrupt" -> [outcome |-> "raised", e |-> NewEngine]
          [] meta.st = "nohash"  ->
                [outcome |-> "raised", e |-> [NewEngine EXCEPT !.serial = meta.serial]]
          [] meta.st = "ok" ->
                CASE cur.st = "missing" -> [outcome |-> "fresh", e |-> NewEngine]
                  [] cur.st = "corrupt" -> [outcome |-> "raised", e |-> fromMeta]
                  [] cur.st = "ok" ->
                        CASE prev.st = "missing" -> [outcome |-> "loaded", e |-> fromCur]
                          [] prev.st = "corrupt" -> [outcome |-> "raised", e |-> fromCur]
                          [] prev.st = "ok" ->
                                [outcome |-> "loaded",
                                 e |-> [fromCur EXCEPT !.previous_snapshot = prev.doc]]

\* the in-memory state as a record
Memory ==
    [serial |-> serial, current_hash |-> current_hash, last_update |-> last_update,
     current_snapshot |-> current_snapshot, previous_snapshot |-> previous_snapshot]

\* ---------------------------------------------------------------- get_diff
\* get_diff(from_serial, to_serial): res = "none" (returns None), "found"
\* (returns the document) or "raised" (json.load raises on the file)
get_diff(from_serial, to_serial) ==
    IF to_serial < from_serial THEN [res |-> "none", doc |-> NoDiff]
    ELSE IF to_serial - from_serial # 1 THEN [res |-> "none", doc |-> NoDiff]
    ELSE LET f == DiffFile(to_serial)
         IN  CASE f.st = "missing" -> [res |-> "none", doc |-> NoDiff]
               [] f.st = "corrupt" -> [res |-> "raised", doc |-> NoDiff]
               [] f.st = "ok"      -> [res |-> "found", doc |-> f]

NoObs == [op |-> "none", to |-> 0, res |-> "none", persisted |-> 0]

\* what a fetch of the upstream returned: nothing (the request failed), roas
\* of which one does not validate, or valid roas, with the hash of their
\* canonical form
NoFetch == [got |-> "nothing", hash |-> EmptyHash]

Fetched(roas) ==
    IF \A i \in 1..Len(roas) : VRPEntryValid(roas[i])
    THEN [got |-> "valid", hash |-> _compute_hash(canonicalize_vrps(roas))]
    ELSE [got |-> "invalid", hash |-> EmptyHash]


\* ------------------------------------------------------------------- Init
\* A new process: a new engine, nothing fetched yet.
InitProcess ==
    /\ serial = NewEngine.serial
    /\ current_hash = NewEngine.current_hash
    /\ last_update = NewEngine.last_update
    /\ current_snapshot = NewEngine.current_snapshot
    /\ previous_snapshot = NewEngine.previous_snapshot
    /\ lock = "free"
    /\ added = {}
    /\ removed = {}
    /\ last_cycle = "none"
    /\ rpc = [r \in Readers |-> "idle"]
    /\ obs = NoObs
    /\ call_serial = 0
    /\ prev_call = [done |-> FALSE, keys |-> {}, len |-> 0]
    /\ fetched = NoFetch
    /\ dirty = FALSE
    /\ load_outcome = "none"

EmptyStore ==
    /\ metadata_file = NoMetadata
    /\ current_file = NoSnapshot
    /\ previous_file = NoSnapshot
    /\ diff_files = <<>>

\* A first start: the state directory is empty.
Init ==
    /\ InitProcess
    /\ EmptyStore
    /\ pc = "boot"
    /\ clock = 0
    /\ vrps_in = <<>>
    /\ canonical_out = <<>>

\* ------------------------------------------------------------ main thread
\* RPKIBackend.run: load_state at startup; every exception is caught and
\* logged, and the run goes on to the initial fetch.
LoadState ==
    /\ pc = "boot"
    /\ lock = "free"
    /\ LET r == LoadResult(metadata_file, current_file, previous_file)
       IN  /\ serial' = r.e.serial
           /\ current_hash' = r.e.current_hash
           /\ last_update' = r.e.last_update
           /\ current_snapshot' = r.e.current_snapshot
           /\ previous_snapshot' = r.e.previous_snapshot
           /\ load_outcome' = r.outcome
    /\ pc' = "started"
    /\ UNCHANGED <<lock, store, added, removed, last_cycle, clock, rpc, obs,
                   call_serial, prev_call, dirty, fetched, canon>>

\* run after the try/except around load_state: whatever load_state did, the
\* polling starts (the initial fetch is the first cycle)
StartPolling ==
    /\ pc = "started"
    /\ pc' = "idle"
    /\ load_outcome' = "none"
    /\ UNCHANGED <<engine, lock, store, added, removed, last_cycle, clock, rpc, obs,
                   call_serial, prev_call, dirty, fetched, canon>>

\* fetch_vrps: the request fails (HTTP status, timeout, connection, bad JSON,
\* bad metadata): returns None, fetch_and_process returns False
FetchFail ==
    /\ pc = "idle"
    /\ last_cycle' = "fetch_failed"
    /\ fetched' = NoFetch
    /\ UNCHANGED <<engine, lock, store, pc, added, removed, clock, rpc, obs,
                   call_serial, prev_call, dirty, load_outcome, canon>>

\* process_snapshot line 189: the snapshot has not changed
HashAlwaysChanged(new_hash, old_hash) == FALSE

HashUnchanged(new_hash, old_hash) == new_hash = old_hash

\* process_snapshot line 203
SkippingSerial(s) == s + 2

NewSerial(s) == s + 1

\* the record set of a batch: its canonical keys
RecordSet(roas) == { canonicalize(roas[i]) : i \in 1..Len(roas) }

\* the diff computed after the snapshots were advanced
DiffAfterAdvance(vrps) ==
    /\ lock = "free"
    /\ LET new_hash == _compute_hash(vrps)
           d        == _compute_diff(vrps, vrps)
       IN  IF HashUnchanged(new_hash, current_hash)
           THEN /\ pc' = "idle"
                /\ last_cycle' = "rejected"
                /\ UNCHANGED <<engine, lock, added, removed, clock>>
           ELSE /\ added' = d.added
                /\ removed' = d.removed
                /\ previous_snapshot' = current_snapshot
                /\ current_snapshot' = vrps
                /\ serial' = NewSerial(serial)
                /\ current_hash' = new_hash
                /\ clock' = clock + 1
                /\ last_update' = clock'
                /\ lock' = "writer"
                /\ pc' = "diff_open"
                /\ last_cycle' = "processing"
    /\ call_serial' = serial
    /\ UNCHANGED <<store, dirty, load_outcome>>

\* process_snapshot(vrps, metadata) up to the first write: takes the lock and
\* either returns False or advances the in-memory state and goes on to the
\* writes with the lock held.
ProcessSnapshot(vrps) ==
    /\ lock = "free"
    /\ LET new_hash == _compute_hash(vrps)
           d        == _compute_diff(current_snapshot, vrps)
       IN  IF HashUnchanged(new_hash, current_hash)
           THEN /\ pc' = "idle"
                /\ last_cycle' = "rejected"
                /\ UNCHANGED <<engine, lock, added, removed, clock>>
           ELSE /\ added' = d.added
                /\ removed' = d.removed
                /\ previous_snapshot' = current_snapshot
                /\ current_snapshot' = vrps
                /\ serial' = NewSerial(serial)
                /\ current_hash' = new_hash
                /\ clock' = clock + 1
                /\ last_update' = clock'
                /\ lock' = "writer"
                /\ pc' = "diff_open"
                /\ last_cycle' = "processing"
    /\ call_serial' = serial
    /\ UNCHANGED <<store, dirty, load_outcome>>

\* process_snapshot would accept the roas: they validate and hash differently
WouldAccept(roas) ==
    LET resp == RoutinagorVRPResponse(roas)
    IN  resp.ok /\ _compute_hash(canonicalize_vrps(resp.roas)) # current_hash

\* fetch_and_process with the upstream answering `roas`: fetch_vrps validates
\* (None on ValidationError, and process_snapshot is not called), then
\* canonicalize_vrps and process_snapshot. The fetch and the canonicalization
\* touch no engine state, so the cycle is one step up to the first write.
FetchAndProcess(roas) ==
    /\ pc = "idle"
    /\ clock < MaxClock \/ ~WouldAccept(roas)
    /\ LET resp == RoutinagorVRPResponse(roas)
       IN  IF resp.ok
           THEN /\ ProcessSnapshot(canonicalize_vrps(resp.roas))
                /\ prev_call' = [done |-> TRUE, keys |-> RecordSet(resp.roas),
                              len |-> Len(resp.roas)]
           ELSE /\ last_cycle' = "invalid"
                /\ UNCHANGED <<engine, lock, store, pc, added, removed, clock,
                               call_serial, prev_call, dirty, load_outcome>>
    /\ fetched' = Fetched(roas)
    /\ UNCHANGED <<rpc, obs, canon>>

\* _save_diff: open(diff_path, 'w')
OpenDiff ==
    /\ pc = "diff_open"
    /\ diff_files' = (serial :> Truncated(DiffFile(serial))) @@ diff_files
    /\ pc' = "diff_dump"
    /\ UNCHANGED <<engine, lock, metadata_file, current_file, previous_file,
                   added, removed, last_cycle, clock, rpc, obs, hist, canon>>

\* _save_diff: json.dump(diff_data, f) and close
DumpDiff ==
    /\ pc = "diff_dump"
    /\ diff_files' = (serial :> DiffDocument(serial, added, removed)) @@ diff_files
    /\ pc' = "cur_open"
    /\ added' = {}
    /\ removed' = {}
    /\ UNCHANGED <<engine, lock, metadata_file, current_file, previous_file,
                   last_cycle, clock, rpc, obs, hist, canon>>

\* _save_state: open(current_snapshot_path, 'w')
OpenCurrent ==
    /\ pc = "cur_open"
    /\ current_file' = Truncated(current_file)
    /\ pc' = "cur_dump"
    /\ UNCHANGED <<engine, lock, metadata_file, previous_file, diff_files,
                   added, removed, last_cycle, clock, rpc, obs, hist, canon>>

\* _save_state: json.dump(self.current_snapshot, f)
DumpCurrent ==
    /\ pc = "cur_dump"
    /\ current_file' = SnapshotDocument(current_snapshot)
    /\ pc' = "prev_open"
    /\ UNCHANGED <<engine, lock, metadata_file, previous_file, diff_files,
                   added, removed, last_cycle, clock, rpc, obs, hist, canon>>

\* _save_state: open(previous_snapshot_path, 'w')
OpenPrevious ==
    /\ pc = "prev_open"
    /\ previous_file' = Truncated(previous_file)
    /\ pc' = "prev_dump"
    /\ UNCHANGED <<engine, lock, metadata_file, current_file, diff_files,
                   added, removed, last_cycle, clock, rpc, obs, hist, canon>>

\* _save_state: json.dump(self.previous_snapshot, f)
DumpPrevious ==
    /\ pc = "prev_dump"
    /\ previous_file' = SnapshotDocument(previous_snapshot)
    /\ pc' = "meta_open"
    /\ UNCHANGED <<engine, lock, metadata_file, current_file, diff_files,
                   added, removed, last_cycle, clock, rpc, obs, hist, canon>>

\* _save_state: open(metadata_path, 'w')
OpenMetadata ==
    /\ pc = "meta_open"
    /\ metadata_file' = Truncated(metadata_file)
    /\ pc' = "meta_dump"
    /\ UNCHANGED <<engine, lock, current_file, previous_file, diff_files,
                   added, removed, last_cycle, clock, rpc, obs, hist, canon>>

\* _save_state: json.dump(metadata, f); process_snapshot then returns True
\* and the lock is released
DumpMetadata ==
    /\ pc = "meta_dump"
    /\ metadata_file' = MetadataDocument
    /\ pc' = "idle"
    /\ lock' = "free"
    /\ last_cycle' = "accepted"
    /\ dirty' = FALSE
    /\ UNCHANGED <<engine, current_file, previous_file, diff_files,
                   added, removed, clock, rpc, obs, call_serial, prev_call, fetched,
                   load_outcome, canon>>

Writing == {"diff_open", "diff_dump", "cur_open", "cur_dump",
            "prev_open", "prev_dump", "meta_open", "meta_dump"}

\* the exception leaves process_snapshot with the lock still held
WriteFaultHoldingLock ==
    /\ pc \in Writing
    /\ pc' = "idle"
    /\ last_cycle' = "raised"
    /\ added' = {}
    /\ removed' = {}
    /\ dirty' = TRUE
    /\ UNCHANGED <<engine, lock, store, clock, rpc, obs, call_serial, prev_call, fetched,
                   load_outcome, canon>>

\* A write raises OSError (open fails: the file is untouched; the dump fails:
\* the file stays truncated). `with self.lock` releases the lock, the
\* exception leaves process_snapshot and fetch_and_process, and run catches
\* it, logs it and goes on polling.
WriteFault ==
    /\ pc \in Writing
    /\ pc' = "idle"
    /\ lock' = "free"
    /\ last_cycle' = "raised"
    /\ added' = {}
    /\ removed' = {}
    /\ dirty' = TRUE
    /\ UNCHANGED <<engine, store, clock, rpc, obs, call_serial, prev_call, fetched,
                   load_outcome, canon>>

\* A new process on the same state directory: the memory of the old one is
\* gone, a new engine is constructed, the files stay as they are.
NewProcess ==
    /\ serial' = NewEngine.serial
    /\ current_hash' = NewEngine.current_hash
    /\ last_update' = NewEngine.last_update
    /\ current_snapshot' = NewEngine.current_snapshot
    /\ previous_snapshot' = NewEngine.previous_snapshot
    /\ lock' = "free"
    /\ pc' = "boot"
    /\ added' = {}
    /\ removed' = {}
    /\ last_cycle' = "none"
    /\ rpc' = [r \in Readers |-> "idle"]
    /\ obs' = NoObs
    /\ call_serial' = 0
    /\ prev_call' = [done |-> FALSE, keys |-> {}, len |-> 0]
    /\ fetched' = NoFetch
    /\ dirty' = FALSE
    /\ load_outcome' = "none"
    /\ UNCHANGED <<store, clock, canon>>

\* SIGTERM: the polling loop ends between two cycles; the service is started
\* again later.
Restart ==
    /\ pc = "idle"
    /\ NewProcess

\* The process is killed inside process_snapshot.
Crash ==
    /\ pc \in Writing
    /\ NewProcess

\* -------------------------------------------------------- request threads
\* get_current_state is called and waits for the lock
CallGetCurrentState(r) ==
    /\ rpc[r] = "idle"
    /\ rpc' = [rpc EXCEPT ![r] = "waiting"]
    /\ UNCHANGED <<engine, lock, store, pc, added, removed, last_cycle,
                   clock, obs, hist, canon>>

\* get_current_state holds the lock while it builds its result
GetCurrentState(r) ==
    /\ rpc[r] = "waiting"
    /\ lock = "free"
    /\ rpc' = [rpc EXCEPT ![r] = "idle"]
    /\ obs' = [op |-> "get_current_state", to |-> serial, res |-> "state",
               persisted |-> 0]
    /\ UNCHANGED <<engine, lock, store, pc, added, removed, last_cycle,
                   clock, hist, canon>>

\* the serials a client asks for
Serials == 0..(MaxClock + 1)

\* the diff file opened in a mode that creates it when it is missing
GetDiffCreating(r, from_serial, to_serial) ==
    /\ rpc[r] = "idle"
    /\ LET d == get_diff(from_serial, to_serial)
       IN  obs' = IF d.res = "found"
                  THEN [op |-> "get_diff", to |-> d.doc.serial, res |-> d.res,
                        persisted |-> metadata_file.serial]
                  ELSE [op |-> "get_diff", to |-> 0, res |-> d.res, persisted |-> 0]
    /\ diff_files' = IF to_serial - from_serial = 1 /\ DiffFile(to_serial).st = "missing"
                     THEN (to_serial :> Truncated(NoDiff)) @@ diff_files
                     ELSE diff_files
    /\ UNCHANGED <<engine, lock, metadata_file, current_file, previous_file, pc,
                   added, removed, last_cycle, clock, rpc, hist, canon>>

\* get_diff takes no lock: it reads the diff file whatever the main thread
\* is doing. obs keeps the serial of the document returned and the serial
\* the metadata file names at that moment.
GetDiff(r, from_serial, to_serial) ==
    /\ rpc[r] = "idle"
    /\ LET d == get_diff(from_serial, to_serial)
       IN  obs' = IF d.res = "found"
                  THEN [op |-> "get_diff", to |-> d.doc.serial, res |-> d.res,
                        persisted |-> metadata_file.serial]
                  ELSE [op |-> "get_diff", to |-> 0, res |-> d.res, persisted |-> 0]
    /\ UNCHANGED <<engine, lock, store, pc, added, removed, last_cycle,
                   clock, rpc, hist, canon>>

\* --------------------------------------------------------- specifications
\* The upstream answers of the larger specifications: every list without
\* repetition of three roas, which differ in asn and prefix only and one of
\* which has host bits set.
FewRecords ==
    { r \in RawRecords : r.ta = "ta1" /\ r.prefix # "10.0.0.0/255.255.255.0" }

FewBatches ==
    UNION { { b \in [1..n -> FewRecords] : \A i, j \in 1..n : b[i] = b[j] => i = j }
            : n \in 0..Cardinality(FewRecords) }

\* the main thread, with the upstream answering from `batches`
Polling(batches) ==
    \/ LoadState
    \/ StartPolling
    \/ FetchFail
    \/ \E roas \in batches : FetchAndProcess(roas)
    \/ OpenDiff
    \/ DumpDiff
    \/ OpenCurrent
    \/ DumpCurrent
    \/ OpenPrevious
    \/ DumpPrevious
    \/ OpenMetadata
    \/ DumpMetadata
    \/ Restart

\* every upstream answer, every write succeeds
Next == Polling(RawBatches)

Spec == Init /\ [][Next]_vars

\* a disk whose writes can fail
NextFault ==
    \/ Polling(FewBatches)
    \/ WriteFault

SpecFault == Init /\ [][NextFault]_vars

\* a process that can be killed between any two writes of process_snapshot
NextCrash ==
    \/ Polling(FewBatches)
    \/ Crash

SpecCrash == Init /\ [][NextCrash]_vars

\* the main thread and the API request threads
NextReaders ==
    \/ Polling(FewBatches)
    \/ \E r \in Readers : CallGetCurrentState(r)
    \/ \E r \in Readers : GetCurrentState(r)
    \/ \E r \in Readers, f, t \in Serials : GetDiff(r, f, t)

SpecReaders == Init /\ [][NextReaders]_vars

\* One process that keeps running, with a disk whose writes can fail and
\* with request threads calling get_current_state. The main thread goes on
\* from wherever it is (a write ends or raises), and a request thread that
\* waits for a lock that is free again and again gets it. The upstream
\* answers with no roa or with one.
LiveBatches ==
    { b \in FewBatches : Len(b) = 0 \/ (Len(b) = 1 /\ VRPEntryValid(b[1]) /\ b[1].asn = "AS1") }

WriteStep ==
    \/ OpenDiff
    \/ DumpDiff
    \/ OpenCurrent
    \/ DumpCurrent
    \/ OpenPrevious
    \/ DumpPrevious
    \/ OpenMetadata
    \/ DumpMetadata
    \/ WriteFault

NextLive ==
    \/ LoadState
    \/ StartPolling
    \/ FetchFail
    \/ \E roas \in LiveBatches : FetchAndProcess(roas)
    \/ WriteStep
    \/ \E r \in Readers : CallGetCurrentState(r)
    \/ \E r \in Readers : GetCurrentState(r)

Fairness ==
    /\ WF_vars(LoadState \/ StartPolling)
    /\ WF_vars(WriteStep)
    /\ \A r \in Readers : SF_vars(GetCurrentState(r))

SpecLive == Init /\ [][NextLive]_vars /\ Fairness

\* A start on a state directory left by an earlier run at serial 1, where
\* each file is as written, deleted, or cut short.
StoredRecord == [asn |-> "AS1", prefix |-> "10.0.0.0/24", maxLength |-> 24, ta |-> "ta1"]

StoredMetadata == MetadataJson(1, _compute_hash(<<StoredRecord>>), 1, <<StoredRecord>>)

InitStore ==
    /\ InitProcess
    /\ pc = "boot"
    /\ clock = 1
    /\ vrps_in = <<>>
    /\ canonical_out = <<>>
    /\ metadata_file \in { StoredMetadata, NoMetadata, Truncated(StoredMetadata),
                           [StoredMetadata EXCEPT !.st = "nohash"] }
    /\ current_file \in { SnapshotDocument(<<StoredRecord>>), NoSnapshot,
                          Truncated(SnapshotDocument(<<StoredRecord>>)) }
    /\ previous_file \in { SnapshotDocument(<<>>), NoSnapshot,
                           Truncated(SnapshotDocument(<<>>)) }
    /\ diff_files \in { <<>>, <<DiffDocument(1, {StoredRecord}, {})>> }

SpecStore == InitStore /\ [][NextFault]_vars

\* canonicalize_vrps on its own, on every list of valid roas
ValidBatches ==
    UNION { [1..n -> { r \in RawRecords : VRPEntryValid(r) }] : n \in 0..MaxRoas }

InitCanon ==
    /\ InitProcess
    /\ EmptyStore
    /\ pc = "canonicalize"
    /\ clock = 0
    /\ vrps_in \in ValidBatches
    /\ canonical_out = <<>>

Canonicalize ==
    /\ pc = "canonicalize"
    /\ canonical_out' = canonicalize_vrps(vrps_in)
    /\ pc' = "canonicalized"
    /\ UNCHANGED <<engine, lock, store, added, removed, last_cycle, clock, rpc, obs,
                   hist, vrps_in>>

SpecCanon == InitCanon /\ [][Canonicalize]_vars

\* The validation of one roa on its own, on asn, prefix and maxLength values
\* at and around the ends of their ranges.
CandidateAsns ==
    {"AS0", "AS1", "AS4294967295", "AS4294967296", "AS-1", "AS", "ASx", "as1", "1"}

CandidatePrefixes ==
    {"10.0.0.0/24", "10.0.0.1/24", "10.0.0.0/8", "10.0.0.0/33", "2001:db8::/32"}

CandidateMaxLengths == {-1, 0, 16, 24, MaxMaxLength, MaxMaxLength + 1}

CandidateRecords ==
    [asn : CandidateAsns, prefix : CandidatePrefixes,
     maxLength : CandidateMaxLengths, ta : {"ta1"}]

InitValidate ==
    /\ InitProcess
    /\ EmptyStore
    /\ pc = "validate"
    /\ clock = 0
    /\ vrps_in \in { <<r>> : r \in CandidateRecords }
    /\ canonical_out = <<>>

\* fetch_vrps: RoutinagorVRPResponse(**data) on the roas received
ValidateResponse ==
    /\ pc = "validate"
    /\ last_cycle' = IF RoutinagorVRPResponse(vrps_in).ok THEN "valid" ELSE "invalid"
    /\ pc' = "validated"
    /\ UNCHANGED <<engine, lock, store, added, removed, clock, rpc, obs, hist, canon>>

SpecValidate == InitValidate /\ [][ValidateResponse]_vars

\* ------------------------------------------------------------------ claims
\* steps of one engine: neither load_state on a new engine nor a new process
SameEngine == pc # "boot" /\ pc' # "boot"

\* C1: a process_snapshot call that returns True leaves the serial one above
\* its value at the call, a call that returns False leaves it as it was, and
\* no step of an engine lowers the serial or raises it by more than one.
C1_SerialStepsByOne ==
    [][ /\ SameEngine => serial' \in {serial, serial + 1}
        /\ (pc = "meta_dump" /\ last_cycle' = "accepted") => serial' = call_serial + 1
        /\ (pc = "idle" /\ last_cycle' = "rejected") =>
                serial' = serial /\ serial' = call_serial' ]_vars

C1_Witness == serial = 2 /\ last_cycle = "rejected" /\ call_serial = 2

\* a step of the polling loop in which the upstream answered
Cycle ==
    /\ pc = "idle"
    /\ pc' # "boot"
    /\ last_cycle' \in {"rejected", "processing", "invalid"}
    /\ rpc' = rpc
    /\ obs' = obs

\* C2: when the candidate hashes to the current hash, process_snapshot
\* returns False and leaves serial, hash, snapshots, last_update and every
\* file as they were.
C2_UnchangedHashIsNoOp ==
    [][ (Cycle /\ fetched'.got = "valid" /\ fetched'.hash = current_hash)
            => /\ last_cycle' = "rejected"
               /\ pc' = "idle"
               /\ lock' = "free"
               /\ UNCHANGED <<engine, store>> ]_vars

C2_Witness ==
    /\ last_cycle = "rejected"
    /\ serial = 1
    /\ current_snapshot # <<>>
    /\ metadata_file.serial = 1

\* the list vrps_in in another order
Reordered(p) == [i \in 1..Len(vrps_in) |-> vrps_in[p[i]]]

\* C3: every ordering of a list of valid roas canonicalizes to the same
\* sequence, with the same hash.
C3_OrderIndependent ==
    pc = "canonicalized" =>
        \A p \in Permutations(1..Len(vrps_in)) :
            /\ canonicalize_vrps(Reordered(p)) = canonical_out
            /\ _compute_hash(canonicalize_vrps(Reordered(p))) = _compute_hash(canonical_out)

\* C4: a batch with the record set of the batch processed before it, in any
\* order, is rejected and leaves the serial as it was.
C4_EquivalentBatchRejected ==
    [][ \A roas \in RawBatches :
            ( /\ FetchAndProcess(roas)
              /\ RoutinagorVRPResponse(roas).ok
              /\ prev_call.done
              /\ prev_call.keys = RecordSet(roas) )
            => last_cycle' = "rejected" /\ serial' = serial ]_vars

\* C5: a failed fetch, or a batch with one invalid roa, ends the cycle
\* without a process_snapshot call: engine and files are as they were.
C5_FailedBatchLeavesEngine ==
    [][ /\ (Cycle /\ fetched'.got = "invalid")
              => /\ last_cycle' = "invalid"
                 /\ pc' = "idle"
                 /\ UNCHANGED <<engine, store, call_serial, prev_call>>
        /\ FetchFail => pc' = "idle" /\ UNCHANGED <<engine, store, call_serial, prev_call>>
      ]_vars

C5_Witness ==
    /\ last_cycle = "invalid"
    /\ serial = 1
    /\ current_snapshot # <<>>
    /\ current_file.doc = current_snapshot

\* C6: between two process_snapshot calls, there is a diff record for every
\* serial from 1 to the current one, and none for a later serial.
C6_DiffIffAccepted ==
    (pc = "idle" /\ lock = "free") =>
        \A s \in 1..(MaxClock + 1) :
            /\ s <= serial => get_diff(s - 1, s).res = "found"
            /\ s > serial => DiffFile(s).st = "missing"

\* C7: a get_diff that runs while process_snapshot runs returns what it
\* would return before the transition or after it: never a half-written
\* record, never the record of a serial the metadata file does not name yet.
C7_ReadersSeeWholeTransitions ==
    obs.op = "get_diff" =>
        /\ obs.res # "raised"
        /\ obs.res = "found" => obs.to <= obs.persisted

\* C8: load_state ends Fresh exactly when there is no metadata file, and
\* after any other failure the run does not go on.
C8_FreshOnlyWithoutMetadata ==
    pc = "started" =>
        /\ load_outcome = "fresh" <=> metadata_file.st = "missing"
        /\ load_outcome # "raised"

\* what a new engine would load from the files
Persisted == LoadResult(metadata_file, current_file, previous_file).e

\* C9: after a write of process_snapshot fails, the engine does not go on
\* polling with a memory that differs from what the files hold.
C9_NoPollingOutOfSync ==
    pc = "idle" => (last_cycle # "raised" /\ Persisted = Memory)

\* C10: as long as no write has failed, a new engine that loads the files
\* between two cycles gets the serial, hash, last_update and both snapshots
\* the running engine has.
C10_RoundTrip ==
    (pc = "idle" /\ ~dirty) => Persisted = Memory

C10_Witness ==
    /\ pc = "idle"
    /\ ~dirty
    /\ last_cycle = "accepted"
    /\ serial = 2
    /\ previous_snapshot # <<>>

\* C11: the deduplication key of canonicalize_vrps and the key of
\* _compute_diff are the same projection: two valid roas share one exactly
\* when they share the other, and no two records of a canonical snapshot
\* have the same diff key.
C11_SameKeyProjection ==
    pc = "canonicalized" =>
        /\ \A i, j \in 1..Len(vrps_in) :
              canonicalize(vrps_in[i]) = canonicalize(vrps_in[j])
              <=> to_key(CanonicalDict(vrps_in[i])) = to_key(CanonicalDict(vrps_in[j]))
        /\ \A i, j \in 1..Len(canonical_out) :
              to_key(canonical_out[i]) = to_key(canonical_out[j]) => i = j

\* C12: get_diff(from, to) returns a record only for to - from = 1 with the
\* record of serial `to` on disk, and then that record; for every other
\* pair it returns None; it never raises.
C12_DiffLookup ==
    [][ \A r \in Readers, f, t \in Serials :
            GetDiff(r, f, t) =>
                /\ obs'.res # "raised"
                /\ obs'.res = "found" =>
                      t - f = 1 /\ t >= f /\ DiffFile(t).st = "ok" /\ obs'.to = t
                /\ (t < f \/ t - f # 1 \/ DiffFile(t).st = "missing") => obs'.res = "none"
      ]_vars

\* C13: no two records of an accepted snapshot share the deduplication key:
\* the roas of the batch with the same key are one record, and the
\* vrp_count saved with the snapshot is the number of distinct keys.
C13_Deduplicated ==
    (pc = "idle" /\ last_cycle = "accepted") =>
        /\ \A i, j \in 1..Len(current_snapshot) :
              canonicalize(current_snapshot[i]) = canonicalize(current_snapshot[j]) => i = j
        /\ RecordSet(current_snapshot) = prev_call.keys
        /\ Len(current_snapshot) = Cardinality(prev_call.keys)
        /\ metadata_file.vrp_count = Cardinality(prev_call.keys)
        /\ current_file.doc = current_snapshot

C13_Witness ==
    /\ pc = "idle"
    /\ last_cycle = "accepted"
    /\ prev_call.len = 2
    /\ Len(current_snapshot) = 1
    /\ metadata_file.vrp_count = 1

\* the records and batches of the scenario
RecordA == [asn |-> "AS1", prefix |-> "10.0.0.0/24", maxLength |-> 24, ta |-> "ta1"]
RecordB == [asn |-> "AS2", prefix |-> "10.1.0.0/24", maxLength |-> 24, ta |-> "ta1"]
Batch1 == <<RecordA>>
Batch3 == { <<RecordA, RecordB>>, <<RecordB, RecordA>> }

\* C14: on a Fresh engine batch1 is accepted with serial 1; batch1 again is
\* rejected and the serial stays 1; batch3, in either order, is accepted
\* with serial 2, and the diff record of serial 2 has added = [RecordB] and
\* removed = [].
C14_Scenario ==
    [][ /\ (pc = "idle" /\ serial = 0 /\ current_hash = EmptyHash /\ FetchAndProcess(Batch1)) =>
              serial' = 1 /\ pc' = "diff_open" /\ current_snapshot' = <<RecordA>>
        /\ (pc = "idle" /\ serial = 1 /\ current_snapshot = <<RecordA>> /\ FetchAndProcess(Batch1)) =>
              serial' = 1 /\ pc' = "idle" /\ last_cycle' = "rejected"
        /\ \A b \in Batch3 :
              (pc = "idle" /\ serial = 1 /\ current_snapshot = <<RecordA>> /\ FetchAndProcess(b)) =>
                  /\ serial' = 2 /\ pc' = "diff_open"
                  /\ current_snapshot' = <<RecordA, RecordB>>
                  /\ added' = {RecordB} /\ removed' = {}
        /\ (pc = "meta_dump" /\ serial = 2 /\ previous_snapshot = <<RecordA>>
                /\ current_snapshot = <<RecordA, RecordB>> /\ DumpMetadata) =>
              /\ last_cycle' = "accepted"
              /\ diff_files'[2] = DiffDocument(2, {RecordB}, {})
              /\ metadata_file'.serial = 2
      ]_vars

C14_Witness ==
    /\ pc = "idle"
    /\ last_cycle = "accepted"
    /\ serial = 2
    /\ previous_snapshot = <<RecordA>>
    /\ current_snapshot = <<RecordA, RecordB>>
    /\ DiffFile(2).added = {RecordB}
    /\ DiffFile(1).added = {RecordA}

\* C15: a step of get_current_state or get_diff, whatever the main thread
\* and the other request threads are doing, leaves serial, hash,
\* last_update, both snapshots and every file as they were.
C15_AccessorsReadOnly ==
    [][ ((rpc' # rpc \/ obs' # obs) /\ pc' # "boot") =>
            UNCHANGED <<engine, store, lock, pc>> ]_vars

C15_Witness ==
    /\ obs.op = "get_diff"
    /\ obs.res = "found"
    /\ lock = "writer"
    /\ serial = 2

\* the asn and prefix values of the candidates that the claim's conditions
\* admit: 'AS' and an integer in [0, 4294967295]; a network without host bits
AsnsInRange == {"AS0", "AS1", "AS4294967295"}
StrictNetworks == {"10.0.0.0/24", "10.0.0.0/8", "2001:db8::/32"}

\* C16: a roa validates exactly when its asn is 'AS' and an integer in
\* [0, 4294967295], its prefix a network without host bits and its maxLength
\* in [0, 128]; a maxLength below the prefix length is accepted.
C16_ValidationRanges ==
    pc = "validated" =>
        LET r == vrps_in[1]
        IN  /\ last_cycle = "valid" <=>
                  /\ r.asn \in AsnsInRange
                  /\ r.prefix \in StrictNetworks
                  /\ r.maxLength >= 0 /\ r.maxLength <= 128
            /\ (r.asn = "AS1" /\ r.prefix = "10.0.0.0/24" /\ r.maxLength = 16) =>
                  last_cycle = "valid"
            /\ r.maxLength \in {-1, 129} => last_cycle = "invalid"

C16_Witness ==
    /\ pc = "validated"
    /\ last_cycle = "valid"
    /\ vrps_in[1].asn = "AS4294967295"
    /\ vrps_in[1].prefix = "10.0.0.0/24"
    /\ vrps_in[1].maxLength = 16

\* the records of snapshot `vrps` whose diff key no record of `other` has
OnlyIn(vrps, other) ==
    { vrps[i] : i \in { j \in 1..Len(vrps) : to_key(vrps[j]) \notin KeySet(other) } }

\* C17: the diff computed by an accepting process_snapshot has added = the
\* records of the new snapshot whose key is not in the old one and removed =
\* the records of the old snapshot whose key is not in the new one, and no
\* key is in both.
C17_DiffByKey ==
    pc = "diff_open" =>
        /\ added = OnlyIn(current_snapshot, previous_snapshot)
        /\ removed = OnlyIn(previous_snapshot, current_snapshot)
        /\ { to_key(v) : v \in added } \cap { to_key(v) : v \in removed } = {}

C19_MetadataWrittenLast ==
    /\ pc \in (Writing \ {"diff_open", "diff_dump"}) => DiffFile(serial).st = "ok"
    /\ (metadata_file.st = "ok" /\ metadata_file.serial > 0) =>
          /\ current_file.st = "ok"
          /\ _compute_hash(current_file.doc) = metadata_file.current_hash
          /\ DiffFile(metadata_file.serial).st = "ok"

\* (prefix, asn, maxLength) of x is at most that of y
TupleAtMost(x, y) ==
    \/ StrLess(x.prefix, y.prefix)
    \/ /\ x.prefix = y.prefix
       /\ \/ StrLess(x.asn, y.asn)
          \/ x.asn = y.asn /\ x.maxLength <= y.maxLength

\* the records of a sequence
Records(s) == { s[i] : i \in 1..Len(s) }

\* C20: the output of canonicalize_vrps ascends by (prefix, asn, maxLength),
\* and two inputs with the same set of output records have the same output
\* sequence.
C20_SortedOutput ==
    pc = "canonicalized" =>
        /\ \A i \in 1..(Len(canonical_out) - 1) :
              TupleAtMost(canonical_out[i], canonical_out[i + 1])
        /\ \A b \in ValidBatches :
              Records(canonicalize_vrps(b)) = Records(canonical_out)
              => canonicalize_vrps(b) = canonical_out

\* C21: process_snapshot returns False exactly when the candidate is the
\* current snapshot, in every state of the engine: a Fresh engine given the
\* empty sequence rejects it and stays at serial 0.
C21_RejectsIffSameContent ==
    [][ (Cycle /\ fetched'.got = "valid") =>
            /\ last_cycle' = "rejected" <=> fetched'.hash = _compute_hash(current_snapshot)
            /\ (serial = 0 /\ current_snapshot = <<>> /\ fetched'.hash = _compute_hash(<<>>)) =>
                  last_cycle' = "rejected" /\ serial' = 0
      ]_vars

\* C22: after an accepted process_snapshot the current snapshot is the
\* previous one without the removed records of the diff of the new serial
\* and with its added records, as sets of records with their ta; a
\* transition that changes the content has a diff that is not empty.
C22_DiffRebuildsSnapshot ==
    (pc = "idle" /\ last_cycle = "accepted") =>
        LET d == DiffFile(serial)
        IN  /\ d.st = "ok"
            /\ Records(current_snapshot) =
                  (Records(previous_snapshot) \ d.removed) \cup d.added
            /\ Records(current_snapshot) # Records(previous_snapshot) =>
                  d.added \cup d.removed # {}

\* C23: whatever the point at which the process stopped inside
\* process_snapshot, the engine that load_state leaves is Fresh or holds the
\* serial, hash and current snapshot of one version: the loaded hash is the
\* hash of the loaded current snapshot.
C23_CrashConsistent ==
    pc = "started" =>
        \/ Memory = NewEngine
        \/ /\ serial > 0
           /\ current_hash = _compute_hash(current_snapshot)
           /\ metadata_file.vrp_count = Len(current_snapshot)

\* C24: once the diff record of serial s has been written, no later write
\* gives the file of s other added or removed records (a file that is being
\* written again counts with the record it held when it was opened).
C24_DiffWriteOnce ==
    [][ \A s \in 1..(MaxClock + 1) :
            (DiffFile(s).serial = s /\ DiffFile(s)'.st = "ok") =>
                /\ DiffFile(s)'.added = DiffFile(s).added
                /\ DiffFile(s)'.removed = DiffFile(s).removed
      ]_vars

\* C25: outside the writes of process_snapshot the lock is free, also after
\* a write has raised; the lock is free again and again, and every
\* get_current_state call that waits for it returns.
C25_LockReleased ==
    /\ [](pc \notin Writing => lock = "free")
    /\ []<>(lock = "free")
    /\ \A r \in Readers : (rpc[r] = "waiting") ~> (rpc[r] = "idle")

C25_Witness ==
    /\ obs.op = "get_current_state"
    /\ last_cycle = "raised"
    /\ obs.to = 1
    /\ serial = 1
    /\ \A r \in Readers : rpc[r] = "idle"

\* C26: once a fetch of a valid record set has been processed to the end
\* (accepted and saved, or rejected as unchanged), the next fetch that returns
\* the same record set is rejected and leaves the serial and the snapshot as
\* they are: the polling loop has settled on that set.
C26_SameSetSettles ==
    [][ ( /\ Cycle
          /\ last_cycle \in {"accepted", "rejected"}
          /\ prev_call.done
          /\ fetched'.got = "valid"
          /\ prev_call'.keys = prev_call.keys )
        => /\ last_cycle' = "rejected"
           /\ serial' = serial
           /\ current_snapshot' = current_snapshot ]_vars

====
